---------------------------- MODULE Spec2Model ----------------------------
(***************************************************************************)
(* Chatbot_AI: the document ingestion pipeline (backend/rag_engine.py,     *)
(* driven by pages/3_Database_Manager.py), the chat query endpoint         *)
(* (backend/app.py) and the pages of a chat session (Chatbot.py,           *)
(* pages/1_LLM.py, pages/2_RAG.py), as a state machine.                    *)
(*                                                                         *)
(* Representation.  A file name is a record [dir, stem, ext]; os.path      *)
(* basename drops dir, str.lower is the table Lower.  A text (prompt, key, *)
(* provider answer, message) is a sequence of atoms <<string, number>>: a  *)
(* character or literal is <<c, 0>>, the page_content of chunk k of file   *)
(* f is <<f, k>> with k >= 1.  An Optional value is None == <<>> or        *)
(* Some(x) == <<x>>.                                                       *)
(***************************************************************************)
EXTENDS Integers, Sequences, FiniteSets, TLC

(* ------------------------------ bounds -------------------------------- *)

\* uploads handed to one "Create Embeddings" click
MaxUploads == 2
\* ingest calls in one behaviour
MaxIngests == 2

(* ------------------------- program constants -------------------------- *)

batch_size == 30

(* ------------------------------ values -------------------------------- *)

None == <<>>
Some(x) == <<x>>

Stores == {"kb1"}
Sessions == {"s1", "s2"}

Name(d, s, e) == [dir |-> d, stem |-> s, ext |-> e]
Content(f, k) == [fmt |-> f, n |-> k]

\* str.lower() on the extensions that occur
Lower(e) == CASE e = ".TXT" -> ".txt"
              [] OTHER -> e

\* os.path.basename
basename(nm) == [nm EXCEPT !.dir = ""]

\* os.path.splitext(name)[1].lower()
file_ext(nm) == Lower(nm.ext)

Member(d, s, e, f, k) == [name |-> Name(d, s, e), content |-> Content(f, k)]

\* an uploaded file: a document, or a zip archive with its members
Doc(s, e, f, k) ==
  [name |-> Name("", s, e), content |-> Content(f, k), members |-> <<>>, zipOK |-> TRUE]
Zip(s, ms, ok) ==
  [name |-> Name("", s, ".zip"), content |-> Content("zip", 0), members |-> ms, zipOK |-> ok]

\* an archive holding a corrupt pdf, an image and, in a folder, a text of
\* batch_size + 1 chunks whose extension is in upper case
DocsZip ==
  Zip("docs", << Member("", "x", ".pdf", "bad", 0),
                 Member("", "img", ".png", "bad", 0),
                 Member("sub", "m", ".TXT", "text", batch_size + 1) >>, TRUE)

\* the uploads the model draws from: a corrupt pdf, an empty text, the
\* archive, and an archive zipfile cannot read
Uploads ==
  { Doc("bad", ".pdf", "bad", 0),
    Doc("empty", ".txt", "text", 0),
    DocsZip,
    Zip("broken", <<>>, FALSE) }

UploadBatches == UNION { [1..n -> Uploads] : n \in 1..MaxUploads }

(* ----------------------------- variables ------------------------------ *)

VARIABLES
  dirs,      \* the store subdirectories of the base directory
  meta,      \* meta[st]: None, or Some(the rag_metadata.json of store st)
  index,     \* index[st]: the chunks embedded in the store's vector index
  tmp,       \* the files present in tempfile.gettempdir()
  nIngests,  \* ingest calls started so far; it also serves as the wall clock
  ing,       \* ing[s]: the frame of session s's process_and_add_files call
  request,   \* None, or Some(the LLMRequest the endpoint served last)
  response,  \* None, or Some(what the endpoint answered to it)
  ragCalls,  \* the query_rag calls made while serving it
  llmCalls,  \* the provider adapter calls made while serving it
  chat       \* st.session_state of the session's chat, and where its run stands

fsVars == <<dirs, meta, index, tmp, nIngests>>
chatVars == <<request, response, ragCalls, llmCalls, chat>>
vars == <<dirs, meta, index, tmp, nIngests, ing, request, response, ragCalls, llmCalls, chat>>

\* Chatbot.py 15-30: the defaults of the session state; pc and payload are
\* the run's position and the request it waits for; sent counts the POSTs
\* made, submits the submissions of the chat input, previous is the last
\* submission and outcome how it ended
NewSession ==
  [ llm_choice |-> <<>>, api_key |-> <<>>, use_rag |-> <<>>,
    active_db |-> <<>>, active_db_name |-> <<>>,
    chat_history |-> <<>>, last_rag_state |-> <<>>, last_payload |-> <<>>,
    pc |-> "idle", payload |-> <<>>, sent |-> 0, submits |-> 0, previous |-> <<>>,
    outcome |-> "" ]

IdleFrame ==
  [ pc |-> "idle", store |-> "kb1", uploaded_files |-> <<>>,
    files |-> <<>>, fi |-> 0, tmp_file_path |-> None,
    all_docs |-> <<>>, total_chunks |-> 0, processed_chunks |-> 0, i |-> 0,
    progress |-> <<>>, batches |-> <<>>, errors |-> <<>>, created |-> {},
    result |-> "" ]

Init ==
  /\ dirs = {}
  /\ meta = [st \in Stores |-> None]
  /\ index = [st \in Stores |-> <<>>]
  /\ tmp = {}
  /\ nIngests = 0
  /\ ing = [s \in Sessions |-> IdleFrame]
  /\ request = None
  /\ response = None
  /\ ragCalls = <<>>
  /\ llmCalls = <<>>
  /\ chat = NewSession

(* ------------------- pages/3_Database_Manager.py ---------------------- *)

list_existing_databases == dirs

meta_exists(db_name) == meta[db_name] # None

db_already_exists(new_db_name) ==
  new_db_name \in dirs /\ meta_exists(new_db_name)

\* a file object as handed to the embedding: a name and the bytes
FileObj(nm, c) == [name |-> nm, content |-> c]

RECURSIVE EligibleMembers(_)
EligibleMembers(ms) ==
  IF ms = <<>> THEN <<>>
  ELSE LET m == Head(ms)
       IN (IF Lower(m.name.ext) \in {".pdf", ".txt"}
             THEN << FileObj(basename(m.name), m.content) >>
             ELSE <<>>)
          \o EligibleMembers(Tail(ms))

\* files_for_embedding: archives expanded to their .pdf/.txt members, an
\* unreadable archive reported and dropped, anything else taken as it is
RECURSIVE files_for_embedding(_)
files_for_embedding(uploaded_files) ==
  IF uploaded_files = <<>> THEN <<>>
  ELSE LET uploaded == Head(uploaded_files)
       IN (IF Lower(uploaded.name.ext) = ".zip"
             THEN IF uploaded.zipOK THEN EligibleMembers(uploaded.members) ELSE <<>>
             ELSE << FileObj(uploaded.name, uploaded.content) >>)
          \o files_for_embedding(Tail(uploaded_files))

(* ----------------------- backend/rag_engine.py ------------------------ *)

\* PyPDFLoader for ".pdf", TextLoader otherwise; load() raises on bytes the
\* loader cannot read
LoaderFor(ext) == IF ext = ".pdf" THEN "PyPDFLoader" ELSE "TextLoader"

LoadOK(file) ==
  \/ LoaderFor(file_ext(file.name)) = "PyPDFLoader" /\ file.content.fmt = "pdf"
  \/ LoaderFor(file_ext(file.name)) = "TextLoader" /\ file.content.fmt = "text"

\* splitter.split_documents(docs): the chunks of one loaded file, in order
split_documents(file) == [k \in 1..file.content.n |-> <<file.name.stem, k>>]


Min(a, b) == IF a < b THEN a ELSE b

\* a slice that stops one short: all_docs[i:i + batch_size - 1]
BatchOneShort(all_docs, i) == SubSeq(all_docs, i + 1, Min(i + batch_size - 1, Len(all_docs)))

\* a progress that reports what is left instead of what is done
ProgressOfRemaining(processed_chunks, total_chunks) ==
  ((total_chunks - processed_chunks) * 100) \div total_chunks

\* all_docs[i:i + batch_size], i counted from 0 as range() does
Batch(all_docs, i) == SubSeq(all_docs, i + 1, Min(i + batch_size, Len(all_docs)))

\* int((processed_chunks / total_chunks) * 100)
Progress(processed_chunks, total_chunks) == (processed_chunks * 100) \div total_chunks

RECURSIVE FileNames(_)
FileNames(files) ==
  IF files = <<>> THEN <<>> ELSE << Head(files).name >> \o FileNames(Tail(files))

\* the record json.dump writes to rag_metadata.json
MetaRecord(files, now, total_chunks) ==
  [files |-> FileNames(files), created_at |-> now, total_chunks |-> total_chunks]

\* the sweep over glob(tempfile.gettempdir() + "/*"): os.remove succeeds on
\* every temporary file the application left there
Sweep(files_in_tmp) == {}

\* "Create Embeddings" (3_Database_Manager.py 74-139) up to the entry of
\* process_and_add_files (rag_engine.py 46-50).  The button is offered only
\* when no database of that name with metadata exists.
CreateEmbeddings(s, new_db_name, uploaded_files) ==
  /\ ing[s].pc = "idle"
  /\ nIngests < MaxIngests
  /\ ~ db_already_exists(new_db_name)
  /\ LET files == files_for_embedding(uploaded_files)
     IN ing' = [ing EXCEPT ![s] =
                  [IdleFrame EXCEPT !.pc = IF files = <<>> THEN "embed" ELSE "stage",
                                    !.store = new_db_name,
                                    !.uploaded_files = uploaded_files,
                                    !.files = files,
                                    !.fi = 1]]
  /\ dirs' = dirs \cup {new_db_name}
  /\ nIngests' = nIngests + 1
  /\ UNCHANGED <<meta, index, tmp, chatVars>>

\* the name NamedTemporaryFile picks: one no file of the directory bears
NewTempName(s) ==
  <<s, CHOOSE k \in 1..(Cardinality(tmp) + 1) :
         /\ <<s, k>> \notin tmp
         /\ \A j \in 1..(k - 1) : <<s, j>> \in tmp>>

\* rag_engine.py 53-56: the upload is copied to a NamedTemporaryFile that
\* is kept on close (delete=False)
StageFile(s) ==
  /\ ing[s].pc = "stage"
  /\ LET path == NewTempName(s)
     IN /\ tmp' = tmp \cup {path}
        /\ ing' = [ing EXCEPT ![s].tmp_file_path = Some(path),
                              ![s].created = @ \cup {path},
                              ![s].pc = "load"]
  /\ UNCHANGED <<dirs, meta, index, nIngests, chatVars>>

\* a load failure that ends the call instead of being skipped
AfterLoadAborting(f, loaded) ==
  LET file == f.files[f.fi]
      split_docs == split_documents(file)
  IN IF loaded
       THEN [f EXCEPT !.total_chunks = @ + Len(split_docs),
                      !.all_docs = @ \o split_docs,
                      !.fi = @ + 1,
                      !.pc = IF f.fi + 1 > Len(f.files) THEN "embed" ELSE "stage"]
       ELSE [f EXCEPT !.errors = Append(@, file.name), !.result = "Exception", !.pc = "done"]

\* the frame after lines 58-68 ran for the current file: a load failure is
\* reported and the loop continues, a loaded file is split and counted
AfterLoad(f, loaded) ==
  LET file == f.files[f.fi]
      split_docs == split_documents(file)
      g == IF loaded
             THEN [f EXCEPT !.total_chunks = @ + Len(split_docs),
                            !.all_docs = @ \o split_docs]
             ELSE [f EXCEPT !.errors = Append(@, file.name)]
  IN [g EXCEPT !.fi = @ + 1,
               !.pc = IF f.fi + 1 > Len(f.files) THEN "embed" ELSE "stage"]

LoadFile(s) ==
  /\ ing[s].pc = "load"
  /\ LET f == ing[s]
         loaded == LoadOK(f.files[f.fi]) /\ f.tmp_file_path[1] \in tmp
     IN ing' = [ing EXCEPT ![s] = AfterLoad(f, loaded)]
  /\ UNCHANGED <<fsVars, chatVars>>

\* an early return taken only when no file was handed over
AfterCheckOfFiles(f) ==
  IF f.files = <<>>
    THEN [f EXCEPT !.result = "No chunks to embed.", !.pc = "done"]
    ELSE [f EXCEPT !.progress = <<0>>, !.i = 0,
                   !.pc = IF f.all_docs = <<>> THEN "finish" ELSE "add"]

\* rag_engine.py 70-77: the early return on zero chunks, else the progress
\* bar is created at 0
AfterCheck(f) ==
  IF f.total_chunks = 0
    THEN [f EXCEPT !.result = "No chunks to embed.", !.pc = "done"]
    ELSE [f EXCEPT !.progress = <<0>>, !.i = 0, !.pc = "add"]

BeginEmbed(s) ==
  /\ ing[s].pc = "embed"
  /\ ing' = [ing EXCEPT ![s] = AfterCheck(ing[s])]
  /\ UNCHANGED <<fsVars, chatVars>>

\* a loop whose step is one short of the slice length: range(0, n, batch_size - 1)
AfterBatchOverlapping(f) ==
  LET batch == Batch(f.all_docs, f.i)
      processed == f.processed_chunks + Len(batch)
  IN [f EXCEPT !.batches = Append(@, batch),
               !.processed_chunks = processed,
               !.progress = Append(@, Progress(Min(processed, f.total_chunks), f.total_chunks)),
               !.i = f.i + batch_size - 1,
               !.pc = IF f.i + batch_size - 1 < Len(f.all_docs) THEN "add" ELSE "finish"]

\* the frame after one round of the loop of lines 79-92
AfterBatch(f) ==
  LET batch == Batch(f.all_docs, f.i)
      processed == f.processed_chunks + Len(batch)
  IN [f EXCEPT !.batches = Append(@, batch),
               !.processed_chunks = processed,
               !.progress = Append(@, Progress(processed, f.total_chunks)),
               !.i = f.i + batch_size,
               !.pc = IF f.i + batch_size < Len(f.all_docs) THEN "add" ELSE "finish"]

\* rag_engine.py 79-92: db.add_documents(batch) returns
AddBatch(s) ==
  /\ ing[s].pc = "add"
  /\ ing[s].store \in dirs
  /\ index' = [index EXCEPT ![ing[s].store] = @ \o Batch(ing[s].all_docs, ing[s].i)]
  /\ ing' = [ing EXCEPT ![s] = AfterBatch(ing[s])]
  /\ UNCHANGED <<dirs, meta, tmp, nIngests, chatVars>>

\* rag_engine.py 81: db.add_documents(batch) raises (embedding or index
\* failure); nothing in process_and_add_files catches it, the page does
\* (3_Database_Manager.py 143-144)
AddBatchFails(s) ==
  /\ ing[s].pc = "add"
  /\ ing' = [ing EXCEPT ![s].result = "Exception", ![s].pc = "done"]
  /\ UNCHANGED <<fsVars, chatVars>>

\* rag_engine.py 94-116: the bar is set to 100, the metadata written, the
\* temporary directory swept, the message returned
Finish(s) ==
  /\ ing[s].pc = "finish"
  /\ LET f == ing[s]
     IN /\ dirs' = dirs \cup {f.store}
        /\ meta' = [meta EXCEPT ![f.store] = Some(MetaRecord(f.files, nIngests, f.total_chunks))]
        /\ ing' = [ing EXCEPT ![s].progress = Append(@, 100),
                              ![s].result = "Added",
                              ![s].pc = "done"]
  /\ tmp' = Sweep(tmp)
  /\ UNCHANGED <<index, nIngests, chatVars>>

\* 3_Database_Manager.py 146: st.rerun(); the call's frame is gone
Rerun(s) ==
  /\ ing[s].pc = "done"
  /\ ing' = [ing EXCEPT ![s] = IdleFrame]
  /\ UNCHANGED <<fsVars, chatVars>>

\* 3_Database_Manager.py 150-160: shutil.rmtree of a listed database
DeleteDatabase(s, del_db) ==
  /\ ing[s].pc = "idle"
  /\ del_db \in list_existing_databases
  /\ dirs' = dirs \ {del_db}
  /\ meta' = [meta EXCEPT ![del_db] = None]
  /\ index' = [index EXCEPT ![del_db] = <<>>]
  /\ UNCHANGED <<tmp, nIngests, ing, chatVars>>

(* ------------------------------- texts -------------------------------- *)

L(s) == <<s, 0>>
T(s) == << L(s) >>
SP == L(" ")

IsSpace(a) == a \in {L(" "), L("\t"), L("\n")}

RECURSIVE LStrip(_)
LStrip(t) == IF t # <<>> /\ IsSpace(Head(t)) THEN LStrip(Tail(t)) ELSE t

RECURSIVE RStrip(_)
RStrip(t) ==
  IF t # <<>> /\ IsSpace(t[Len(t)]) THEN RStrip(SubSeq(t, 1, Len(t) - 1)) ELSE t

\* no stripping: a bare emptiness test
StripNothing(t) == t

\* str.strip()
Strip(t) == RStrip(LStrip(t))

\* Python truthiness of an Optional[str]
Truthy(opt) == opt # None /\ opt[1] # <<>>

(* ------------------ backend/rag_engine.py: retrieval ------------------ *)

rag_k == 3

RECURSIVE Weight(_)
Weight(t) ==
  IF t = <<>> THEN 0
  ELSE Head(t)[2] + (IF IsSpace(Head(t)) THEN 0 ELSE 1) + Weight(Tail(t))

\* the embedding function of load_chroma_db, used for add and for search
\* alike: a text is placed on a line, chunk k of a file near a question of
\* k words
Embed(t) == Weight(t)

Abs(x) == IF x < 0 THEN 0 - x ELSE x
Distance(question, chunk) == Abs(Embed(question) - Embed(<<chunk>>))

\* the position of the nearest chunk not taken yet, the earliest inserted
\* among equally near ones (0 when none is left); p scans the index
RECURSIVE NearestAt(_, _, _, _, _)
NearestAt(idx, question, taken, p, best) ==
  IF p > Len(idx) THEN best
  ELSE NearestAt(idx, question, taken, p + 1,
                 IF /\ p \notin taken
                    /\ \/ best = 0
                       \/ Distance(question, idx[p]) < Distance(question, idx[best])
                   THEN p ELSE best)

\* db.similarity_search(question, k): the k nearest chunks, nearest first,
\* equal distances in insertion order
RECURSIVE Nearest(_, _, _, _)
Nearest(idx, question, k, taken) ==
  LET p == NearestAt(idx, question, taken, 1, 0)
  IN IF k = 0 \/ p = 0 THEN <<>>
     ELSE << idx[p] >> \o Nearest(idx, question, k - 1, taken \cup {p})

\* a search that ignores k and returns every chunk, nearest first
similarity_search_all(idx, question, k) == Nearest(idx, question, Len(idx), {})

similarity_search(idx, question, k) == Nearest(idx, question, k, {})

\* "\n\n".join(doc.page_content for doc in results)
RECURSIVE Join(_)
Join(docs) ==
  IF docs = <<>> THEN <<>>
  ELSE IF Len(docs) = 1 THEN << docs[1] >>
  ELSE << docs[1], L("\n\n") >> \o Join(Tail(docs))

\* query_rag on a store that opens and searches
query_rag(question, persist_directory, k) ==
  Join(similarity_search(index[persist_directory], question, k))

(* --------------------------- backend/app.py --------------------------- *)

LLMResponse(success, text, error_message) ==
  [status |-> 200, success |-> success, response |-> text, error_message |-> error_message]

\* raise HTTPException(status_code=500, detail=...)
HTTPException(status_code, detail) == [status |-> status_code, detail |-> detail]

\* a completion content that is not a str (a list of content parts, as
\* OpenAI-compatible servers may send), and the test pydantic applies to
\* the field response: str
NonText == << <<"content parts", -1>> >>
IsStr(t) == \A k \in 1..Len(t) : t[k][2] >= 0

\* str.lower() on the words provider errors are made of
LowerWord(w) ==
  CASE w = "Quota" -> "quota"
    [] w = "AUTHENTICATION" -> "authentication"
    [] w = "Invalid API Key" -> "invalid api key"
    [] w = "Limit" -> "limit"
    [] OTHER -> w

LowerText(t) == [k \in 1..Len(t) |-> <<LowerWord(t[k][1]), t[k][2]>>]

\* marker in err_msg
Mentions(err_msg, word) == \E k \in 1..Len(err_msg) : err_msg[k] = L(word)

\* a classification that looks for the quota markers first
parse_api_error_quota_first(provider, error) ==
  LET err_msg == LowerText(error)
  IN IF Mentions(err_msg, "quota") \/ Mentions(err_msg, "limit")
       THEN << L(provider), L(" API quota exceeded. Please check your account limits.") >>
     ELSE IF \/ Mentions(err_msg, "401")
             \/ Mentions(err_msg, "invalid api key")
             \/ Mentions(err_msg, "authentication")
       THEN << L("Invalid API key. Please check your "), L(provider), L(" API key.") >>
     ELSE << L(provider), L(" API error: ") >> \o error

parse_api_error(provider, error) ==
  LET err_msg == LowerText(error)
  IN IF \/ Mentions(err_msg, "401")
        \/ Mentions(err_msg, "invalid api key")
        \/ Mentions(err_msg, "authentication")
       THEN << L("Invalid API key. Please check your "), L(provider), L(" API key.") >>
     ELSE IF Mentions(err_msg, "quota") \/ Mentions(err_msg, "limit")
       THEN << L(provider), L(" API quota exceeded. Please check your account limits.") >>
     ELSE << L(provider), L(" API error: ") >> \o error

Returned(text, ok, err) == [text |-> text, ok |-> ok, err |-> err]

\* what the provider's API does with a call: it returns a completion whose
\* content is None, "" or a text, or the client raises
Completion(content) == [kind |-> "content", content |-> content, error |-> <<>>]
Raises(error) == [kind |-> "raise", content |-> None, error |-> error]

get_deepseek_llm(reply) ==
  IF reply.kind = "raise"
    THEN Returned(None, FALSE, Some(parse_api_error("DeepSeek", reply.error)))
    ELSE Returned(reply.content, TRUE, None)

get_gemini_llm(reply) ==
  IF reply.kind = "raise"
    THEN Returned(None, FALSE, Some(parse_api_error("Gemini", reply.error)))
    ELSE IF Truthy(reply.content)
      THEN Returned(reply.content, TRUE, None)
      ELSE Returned(None, FALSE, Some(T("Gemini returned an empty response.")))

get_openai_llm(reply) ==
  IF reply.kind = "raise"
    THEN Returned(None, FALSE, Some(parse_api_error("OpenAI", reply.error)))
    ELSE Returned(reply.content, TRUE, None)

safe_instruction == L("If the question is unclear, ... instead of repeating old answers.")

\* "if ok" in place of "if ok and text"
RespondIfOk(ret) ==
  IF ret.ok
    THEN LLMResponse(TRUE, IF ret.text = None THEN <<>> ELSE ret.text[1], None)
    ELSE LLMResponse(FALSE, <<>>,
                     IF Truthy(ret.err) THEN ret.err ELSE Some(T("No valid response generated.")))

\* LLMResponse(success=True, response=text) built whenever ok, without the
\* "and text" test: a missing or empty text fails the model's validation
RespondUnchecked(ret) ==
  IF ret.ok
    THEN IF Truthy(ret.text) /\ IsStr(ret.text[1])
           THEN LLMResponse(TRUE, ret.text[1], None)
           ELSE HTTPException(500, T("Internal server error."))
    ELSE LLMResponse(FALSE, <<>>,
                     IF Truthy(ret.err) THEN ret.err ELSE Some(T("No valid response generated.")))

\* app.py 201-213: building LLMResponse(response=text) raises when text is
\* not a str; the handler of line 210 turns that into the 500
Respond(ret) ==
  IF ret.ok /\ Truthy(ret.text)
    THEN IF IsStr(ret.text[1])
           THEN LLMResponse(TRUE, ret.text[1], None)
           ELSE HTTPException(500, T("Internal server error."))
    ELSE LLMResponse(FALSE, <<>>,
                     IF Truthy(ret.err) THEN ret.err ELSE Some(T("No valid response generated.")))

\* the adapter call of app.py 184-197, as it is made
AdapterCall(req, prompt, system_message, reply) ==
  [ model_name |-> req.model_name, api_key |-> req.api_key, prompt |-> prompt,
    system_message |-> system_message, chat_history |-> req.chat_history,
    temperature |-> IF req.model_name = "Gemini" THEN None ELSE Some(req.temperature),
    max_tokens |-> IF req.model_name = "Gemini" THEN None ELSE Some(req.max_tokens),
    reply |-> reply ]

\* app.py 179-208: the dispatch on model_name; Out is what the endpoint
\* leaves behind: its response and the calls it made
Out(resp, rags, llms, ds) == [response |-> resp, ragCalls |-> rags, llmCalls |-> llms, dirs |-> ds]

Route(req, prompt, system_message, reply, rags, ds) ==
  IF req.model_name = "DeepSeek"
    THEN Out(Respond(get_deepseek_llm(reply)), rags,
             << AdapterCall(req, prompt, system_message, reply) >>, ds)
  ELSE IF req.model_name = "Gemini"
    THEN Out(Respond(get_gemini_llm(reply)), rags,
             << AdapterCall(req, prompt, system_message, reply) >>, ds)
  ELSE IF req.model_name = "ChatGPT"
    THEN Out(Respond(get_openai_llm(reply)), rags,
             << AdapterCall(req, prompt, system_message, reply) >>, ds)
  ELSE Out(LLMResponse(FALSE, <<>>, Some(<< L("Unknown model: "), L(req.model_name) >>)),
           rags, <<>>, ds)

RagCall(question, path, outcome) ==
  [question |-> question, persist_directory |-> path, k |-> rag_k, outcome |-> outcome]

\* a rewriting that drops the question
rag_prompt_context_only(context, prompt) ==
  << L("Use the following context to answer:\n\n") >> \o context

\* app.py 170: the prompt rewritten around the retrieved context
rag_prompt(context, prompt) ==
  << L("Use the following context to answer:\n\n") >> \o context
    \o << L("\n\nQuestion: ") >> \o prompt

\* app.py 163-177, then the dispatch.  rag is what query_rag does when it is
\* called: "ok", "embed_fail" (the embedding model cannot be loaded; the
\* store is not opened) or "search_fail" (the store is opened, which
\* creates its directory, and the search raises).
ApplyRag(req, prompt, system_message, rag, reply) ==
  IF req.use_rag /\ Truthy(req.db_path)
    THEN LET path == req.db_path[1][1][1]
             call == RagCall(prompt, path, rag)
         IN IF rag = "ok"
              THEN Route(req, rag_prompt(query_rag(prompt, path, rag_k), prompt),
                         system_message, reply, << call >>, dirs \cup {path})
              ELSE Out(LLMResponse(FALSE, <<>>,
                                   Some(<< L("RAG Error: Could not retrieve context. Details: "),
                                           L(rag) >>)),
                       << call >>, <<>>,
                       IF rag = "search_fail" THEN dirs \cup {path} ELSE dirs)
    ELSE Route(req, prompt, system_message, reply, <<>>, dirs)

\* app.py 146-161
Serve(req, rag, reply) ==
  IF Strip(req.api_key) = <<>>
    THEN Out(LLMResponse(FALSE, <<>>, Some(T("API key is required."))), <<>>, <<>>, dirs)
  ELSE IF Strip(req.prompt) = <<>>
    THEN Out(LLMResponse(FALSE, <<>>, Some(T("Prompt cannot be empty."))), <<>>, <<>>, dirs)
  ELSE ApplyRag(req, Strip(req.prompt),
                req.system_message \o << L("\n\n"), safe_instruction >>, rag, reply)

\* POST /query_llm: one request is served from its arrival to its response
query_llm(req, rag, reply) ==
  LET out == Serve(req, rag, reply)
  IN /\ request = None
     /\ request' = Some(req)
     /\ response' = Some(out.response)
     /\ ragCalls' = out.ragCalls
     /\ llmCalls' = out.llmCalls
     /\ dirs' = out.dirs
     /\ UNCHANGED <<meta, index, tmp, nIngests, ing, chat>>

\* the response has been sent; the request's parameters are discarded
Deliver ==
  /\ request # None
  /\ request' = None
  /\ response' = None
  /\ ragCalls' = <<>>
  /\ llmCalls' = <<>>
  /\ UNCHANGED <<fsVars, ing, chat>>

(* ------------------------- requests and replies ----------------------- *)

\* the longest api key and the longest prompt
MaxKeyLen == 1
MaxPromptLen == 2

Texts(chars, n) == UNION { [1..m -> chars] : m \in 0..n }

ModelNames == {"DeepSeek", "Gemini", "ChatGPT", "Llama"}

DbPaths == {None, Some(<<>>)} \cup { Some(T(st)) : st \in Stores }

Requests ==
  [ model_name : ModelNames,
    api_key : Texts({SP, L("k")}, MaxKeyLen),
    prompt : Texts({SP, L("q")}, MaxPromptLen),
    system_message : {T("You are a helpful AI assistant.")},
    chat_history : {<<>>},
    use_rag : BOOLEAN,
    db_path : DbPaths,
    temperature : {7},
    max_tokens : {1000} ]

ErrorTexts ==
  { << L("Error"), L("code:"), L("401") >>,
    << L("Quota"), L("exceeded") >>,
    << L("AUTHENTICATION"), L("rate"), L("Limit") >>,
    << L("Connection"), L("timeout") >>,
    << L("Invalid API Key") >>,
    << L("limit"), L("of"), L("401") >> }

Replies ==
  { Completion(None), Completion(Some(<<>>)), Completion(Some(T("answer"))) }
    \cup { Raises(e) : e \in ErrorTexts }

RagOutcomes == {"ok", "embed_fail", "search_fail"}

\* completions whose content is not a str
MalformedReplies == { Completion(Some(NonText)) }

(* --------------------------- specification ---------------------------- *)

\* one browser session drives the pages
User == "s1"

Next ==
  \/ \E st \in Stores, ups \in UploadBatches : CreateEmbeddings(User, st, ups)
  \/ StageFile(User)
  \/ LoadFile(User)
  \/ BeginEmbed(User)
  \/ AddBatch(User)
  \/ AddBatchFails(User)
  \/ Finish(User)
  \/ Rerun(User)
  \/ \E st \in Stores : DeleteDatabase(User, st)

Spec == Init /\ [][Next]_vars

\* the chat page of the session posts to the endpoint between the runs of
\* the database page, which fill stores from the archive or from a note of
\* two chunks
ChatUploads == { << DocsZip >>, << Doc("note", ".txt", "text", 2) >> }

ChatNext ==
  \/ /\ ing[User].pc = "idle"
     /\ request = None
     /\ \E req \in Requests, rag \in RagOutcomes, reply \in Replies : query_llm(req, rag, reply)
  \/ Deliver
  \/ \E st \in Stores, ups \in ChatUploads : CreateEmbeddings(User, st, ups)
  \/ StageFile(User)
  \/ LoadFile(User)
  \/ BeginEmbed(User)
  \/ AddBatch(User)
  \/ Finish(User)
  \/ Rerun(User)

ChatSpec == Init /\ [][ChatNext]_vars

\* the endpoint alone, with providers that may also answer with a content
\* that is not a str (the OpenAI-compatible ones)
ServerNext ==
  \/ /\ request = None
     /\ \E req \in Requests, rag \in RagOutcomes, reply \in Replies \cup MalformedReplies :
          /\ reply \in MalformedReplies => req.model_name \in {"DeepSeek", "ChatGPT"}
          /\ query_llm(req, rag, reply)
  \/ Deliver

ServerSpec == Init /\ [][ServerNext]_vars


(* ------------------ the pages of the chat session --------------------- *)

\* chat submissions in one behaviour
MaxSubmits == 2

\* the session runs one page script at a time: a page is run when neither
\* the chat nor the database page of the session is in the middle of a run
SessionIdle == chat.pc = "idle" /\ ing[User].pc = "idle"

\* pages/1_LLM.py 13-24: the model chosen and the key typed
LLMPage(choice, key) ==
  /\ SessionIdle
  /\ chat' = [chat EXCEPT !.llm_choice = Some(choice), !.api_key = key]
  /\ UNCHANGED <<fsVars, ing, request, response, ragCalls, llmCalls>>

\* pages/2_RAG.py 36-84: the radio, and on "Yes" the selectbox over the
\* listed databases; active_db is written only when the selection differs
\* from the name kept in the session
RAGPage(use_rag, selected_db) ==
  /\ SessionIdle
  /\ LET dbs == list_existing_databases
         previous_db == chat.active_db_name
     IN /\ (use_rag = "Yes" /\ dbs # {}) => selected_db \in dbs
        /\ chat' =
             IF use_rag = "Yes"
               THEN IF dbs # {} /\ Some(selected_db) # previous_db
                      THEN [chat EXCEPT !.use_rag = Some(use_rag),
                                        !.active_db_name = Some(selected_db),
                                        !.active_db = Some(T(selected_db))]
                      ELSE [chat EXCEPT !.use_rag = Some(use_rag)]
               ELSE [chat EXCEPT !.use_rag = Some(use_rag), !.active_db = None]
  /\ UNCHANGED <<fsVars, ing, request, response, ragCalls, llmCalls>>

\* Chatbot.py 49-60: the chat is shown only when these hold
llm_ready == chat.llm_choice # None /\ Strip(chat.api_key) # <<>>
rag_ready == chat.use_rag \in {Some("No"), Some("Yes")}
rag_enabled == chat.use_rag = Some("Yes")
has_db == Truthy(chat.active_db)
ChatShown == llm_ready /\ rag_ready /\ ~ (rag_enabled /\ ~ has_db)

\* Chatbot.py 65-68: the history as the run finds it after the RAG mode
\* switch detection
HistoryAtRun ==
  IF chat.last_rag_state # chat.use_rag THEN <<>> ELSE chat.chat_history

\* Chatbot.py 116-130
Payload(user_message, history) ==
  [ model_name |-> chat.llm_choice[1],
    api_key |-> chat.api_key,
    prompt |-> user_message,
    system_message |-> T("You are a helpful AI assistant."),
    chat_history |-> [k \in 1..Len(history) |->
                        [role |-> IF history[k][1] = "user" THEN "user" ELSE "assistant",
                         content |-> history[k][2]]],
    use_rag |-> rag_enabled,
    db_path |-> chat.active_db,
    temperature |-> 7,
    max_tokens |-> 1000 ]

\* a run of the chat page without a message (Chatbot.py 65-101)
ViewChat ==
  /\ SessionIdle
  /\ ChatShown
  /\ chat.last_rag_state # chat.use_rag
  /\ chat' = [chat EXCEPT !.chat_history = <<>>, !.last_rag_state = chat.use_rag]
  /\ UNCHANGED <<fsVars, ing, request, response, ragCalls, llmCalls>>

\* Chatbot.py 90-92: "Clear Chat History"
ClearChat ==
  /\ SessionIdle
  /\ ChatShown
  /\ chat.chat_history # <<>>
  /\ chat' = [chat EXCEPT !.chat_history = <<>>, !.last_rag_state = chat.use_rag]
  /\ UNCHANGED <<fsVars, ing, request, response, ragCalls, llmCalls>>

\* a guard that remembers the message alone
IsDuplicateByMessage(new_payload) ==
  chat.last_payload # None /\ new_payload[1] = chat.last_payload[1][1]

\* Chatbot.py 105-106: new_payload == st.session_state.last_payload
IsDuplicate(new_payload) == Some(new_payload) = chat.last_payload

\* Chatbot.py 101-138, a run with a message: a duplicate stops the run; any
\* other message is remembered, shown, and posted to the endpoint
Submit(user_message) ==
  /\ SessionIdle
  /\ ChatShown
  /\ chat.submits < MaxSubmits
  /\ user_message # <<>>
  /\ LET new_payload == << user_message, chat.use_rag, chat.llm_choice >>
         history == HistoryAtRun
         seen == [chat EXCEPT !.last_rag_state = chat.use_rag,
                              !.chat_history = history,
                              !.submits = @ + 1,
                              !.previous = Some(new_payload)]
     IN chat' =
          IF IsDuplicate(new_payload)
            THEN [seen EXCEPT !.outcome = "duplicate"]
            ELSE [seen EXCEPT !.last_payload = Some(new_payload),
                              !.chat_history = Append(history, << "user", user_message >>),
                              !.payload = Some(Payload(user_message, history)),
                              !.sent = @ + 1,
                              !.outcome = "",
                              !.pc = "waiting"]
  /\ UNCHANGED <<fsVars, ing, request, response, ragCalls, llmCalls>>

\* the endpoint serves the request the page posted
ServePosted(rag, reply) ==
  /\ chat.pc = "waiting"
  /\ query_llm(chat.payload[1], rag, reply)

\* Chatbot.py 139-151: what the page shows for a response
bot_response(r) ==
  IF r.status = 200
    THEN IF r.success
           THEN IF Strip(r.response) = <<>>
                  THEN T("I couldn't generate a proper answer this time.")
                  ELSE Strip(r.response)
           ELSE r.error_message[1]
    ELSE << L("Server error (HTTP "), L("500"), L(").") >>

\* Chatbot.py 138-164: the response arrives within the timeout
Receive ==
  /\ chat.pc = "waiting"
  /\ response # None
  /\ chat' = [chat EXCEPT !.chat_history = Append(@, << "assistant", bot_response(response[1]) >>),
                          !.payload = None,
                          !.outcome = "answered",
                          !.pc = "idle"]
  /\ request' = None
  /\ response' = None
  /\ ragCalls' = <<>>
  /\ llmCalls' = <<>>
  /\ UNCHANGED <<fsVars, ing>>

\* Chatbot.py 153-158: the POST raises; a timeout may come before or after
\* the endpoint did its work, a connection error only before.  The error is
\* shown and the run ends; nothing is sent again.
PostRaises(kind) ==
  /\ chat.pc = "waiting"
  /\ kind = "ConnectError" => request = None
  /\ chat' = [chat EXCEPT
       !.chat_history =
          Append(@, << "assistant",
                       IF kind = "ReadTimeout"
                         THEN T("Request timed out. The backend took too long to respond.")
                         ELSE T("Cannot connect to backend. Make sure FastAPI is running.") >>),
       !.payload = None,
       !.outcome = kind,
       !.pc = "idle"]
  /\ request' = None
  /\ response' = None
  /\ ragCalls' = <<>>
  /\ llmCalls' = <<>>
  /\ UNCHANGED <<fsVars, ing>>

UserMessages == { T("q"), << L("q"), L("q") >> }
UIModels == {"DeepSeek", "Gemini"}
UIReplies == { Completion(Some(T("answer"))), Raises(<< L("Connection"), L("timeout") >>) }
UIRagOutcomes == {"ok", "search_fail"}
UIUploads == { << Doc("note", ".txt", "text", 2) >> }

\* one session: its LLM, RAG and chat pages, the endpoint behind the chat,
\* and the database page creating and deleting stores; the session runs
\* one page script at a time
UINext ==
  \/ \E choice \in UIModels : LLMPage(choice, T("k"))
  \/ \E use_rag \in {"No", "Yes"}, selected_db \in Stores : RAGPage(use_rag, selected_db)
  \/ ViewChat
  \/ ClearChat
  \/ \E user_message \in UserMessages : Submit(user_message)
  \/ \E rag \in UIRagOutcomes, reply \in UIReplies : ServePosted(rag, reply)
  \/ Receive
  \/ \E kind \in {"ReadTimeout", "ConnectError"} : PostRaises(kind)
  \/ /\ chat.pc = "idle"
     /\ \E st \in Stores, ups \in UIUploads : CreateEmbeddings(User, st, ups)
  \/ StageFile(User)
  \/ LoadFile(User)
  \/ BeginEmbed(User)
  \/ AddBatch(User)
  \/ Finish(User)
  \/ Rerun(User)
  \/ /\ chat.pc = "idle"
     /\ \E st \in Stores : DeleteDatabase(User, st)

UISpec == Init /\ [][UINext]_vars

\* two browser sessions on the database page at once, each creating a
\* database from one text file
ConcUploads == { << Doc("note", ".txt", "text", 2) >>, << Doc("memo", ".txt", "text", 1) >> }

ConcNext ==
  \E s \in Sessions :
    \/ \E st \in Stores, ups \in ConcUploads : CreateEmbeddings(s, st, ups)
    \/ StageFile(s)
    \/ LoadFile(s)
    \/ BeginEmbed(s)
    \/ AddBatch(s)
    \/ Finish(s)
    \/ Rerun(s)

ConcSpec == Init /\ [][ConcNext]_vars

(* ------------------- what a call should have embedded ----------------- *)

RECURSIVE Flatten(_)
Flatten(ss) == IF ss = <<>> THEN <<>> ELSE Head(ss) \o Flatten(Tail(ss))

IsSuffix(a, b) ==
  Len(a) <= Len(b) /\ SubSeq(b, Len(b) - Len(a) + 1, Len(b)) = a

\* the documents an upload stands for: itself, or the .pdf/.txt members of
\* a readable archive (read off the upload, not off files_for_embedding)
Eligible(up) ==
  IF up.name.ext \in {".zip"}
    THEN IF up.zipOK
           THEN SelectSeq(up.members, LAMBDA m : m.name.ext \in {".pdf", ".txt", ".TXT"})
           ELSE <<>>
    ELSE << [name |-> up.name, content |-> up.content] >>

\* a document's bytes are readable for the loader its extension selects
Readable(d) ==
  IF d.name.ext = ".pdf" THEN d.content.fmt = "pdf" ELSE d.content.fmt = "text"

RECURSIVE Accepted(_)
Accepted(ups) == IF ups = <<>> THEN <<>> ELSE Eligible(Head(ups)) \o Accepted(Tail(ups))

ExpectedLoaded(ups) == SelectSeq(Accepted(ups), Readable)
ExpectedFailed(ups) == SelectSeq(Accepted(ups), LAMBDA d : ~ Readable(d))

BareNames(ds) == [k \in 1..Len(ds) |-> [dir |-> "", stem |-> ds[k].name.stem, ext |-> ds[k].name.ext]]

RECURSIVE ExpectedChunks(_)
ExpectedChunks(ds) ==
  IF ds = <<>> THEN <<>>
  ELSE [k \in 1..Head(ds).content.n |-> <<Head(ds).name.stem, k>>] \o ExpectedChunks(Tail(ds))

RECURSIVE SumChunks(_)
SumChunks(ds) == IF ds = <<>> THEN 0 ELSE Head(ds).content.n + SumChunks(Tail(ds))

Succeeded(s) == ing[s].pc = "done" /\ ing[s].result = "Added"

(* ------------------------------ claims -------------------------------- *)

\* C1: whenever a store has a Metadata record, its total_chunks equals the
\* number of chunks currently embedded in that store's index.
C1_TotalChunksIsIndexSize ==
  \A st \in Stores : meta[st] # None => meta[st][1].total_chunks = Len(index[st])

\* C2: after a successful ingest the Metadata files list holds exactly the
\* names of the accepted documents (archive members expanded, other members
\* excluded) that loaded, and none of a document skipped on a load failure.
C2_FilesAreTheLoadedDocuments ==
  \A s \in Sessions :
    Succeeded(s) =>
      meta[ing[s].store][1].files = BareNames(ExpectedLoaded(ing[s].uploaded_files))

\* C3: after a successful ingest the total_chunks written equals the number
\* of chunks the call added to the index, which is the sum of the chunk
\* counts of the documents that loaded.
C3_TotalChunksIsWhatWasAdded ==
  \A s \in Sessions :
    Succeeded(s) =>
      /\ meta[ing[s].store] # None
      /\ meta[ing[s].store][1].total_chunks = Len(Flatten(ing[s].batches))
      /\ meta[ing[s].store][1].total_chunks = SumChunks(ExpectedLoaded(ing[s].uploaded_files))
      /\ IsSuffix(Flatten(ing[s].batches), index[ing[s].store])

C3_Witness ==
  \E s \in Sessions :
    /\ Succeeded(s)
    /\ Len(ing[s].batches) >= 2
    /\ ing[s].errors # <<>>

\* C4: a document that fails to load never aborts the call: once the loop
\* over the files is left every failing document has been reported, the
\* combined sequence holds the chunks of every document that loads, in
\* order, and a completed call has embedded exactly those; the only abort
\* is a failing add, after the loop.
C4_LoadFailuresAreSkipped ==
  \A s \in Sessions :
    LET f == ing[s]
        ups == f.uploaded_files
    IN /\ f.pc \in {"embed", "add", "finish", "done"} =>
            /\ f.fi = Len(f.files) + 1
            /\ f.errors = BareNames(ExpectedFailed(ups))
            /\ f.all_docs = ExpectedChunks(ExpectedLoaded(ups))
       /\ Succeeded(s) =>
            /\ Flatten(f.batches) = ExpectedChunks(ExpectedLoaded(ups))
            /\ IsSuffix(ExpectedChunks(ExpectedLoaded(ups)), index[f.store])
       /\ (f.pc = "done" /\ f.result = "Exception") => f.total_chunks > 0

\* a corrupt document first, a good one after it, both handled
C4_Witness ==
  \E s \in Sessions :
    /\ Succeeded(s)
    /\ Len(ing[s].files) = 2
    /\ ~ LoadOK(ing[s].files[1])
    /\ LoadOK(ing[s].files[2])
    /\ ing[s].errors # <<>>
    /\ Flatten(ing[s].batches) # <<>>

\* C5: a call whose combined chunk count is zero returns the "no valid
\* content" outcome at the check after the loop; no step of it adds to an
\* index or writes a Metadata record.
C5_ZeroChunksTouchNothing ==
  [][\A s \in Sessions :
       (/\ ing'[s].pc \in {"stage", "load", "embed", "add", "finish", "done"}
        /\ ing[s].pc # "done"
        /\ ExpectedChunks(ExpectedLoaded(ing'[s].uploaded_files)) = <<>>)
       => /\ meta' = meta
          /\ index' = index
          /\ ing'[s].batches = <<>>
          /\ ing'[s].pc \in {"stage", "load", "embed", "done"}
          /\ ing[s].pc = "embed" =>
               ing'[s].pc = "done" /\ ing'[s].result = "No chunks to embed."]_vars

\* the early return taken into a store that already holds chunks
C5_Witness ==
  \E s \in Sessions :
    /\ ing[s].pc = "done"
    /\ ing[s].result = "No chunks to embed."
    /\ ing[s].files # <<>>
    /\ index[ing[s].store] # <<>>

\* C6: when a call returns, on any exit path, every temporary file it
\* created has been removed.
C6_TempFilesRemovedOnExit ==
  \A s \in Sessions : ing[s].pc = "done" => ing[s].created \cap tmp = {}

NonDecreasing(q) == \A k \in 1..(Len(q) - 1) : q[k] <= q[k + 1]

\* C7: the batches are added one after the other (the chunks added so far
\* are the first processed_chunks of the combined sequence, one progress
\* value per completed batch), the progress values are non-decreasing in
\* 0..100, and they end with 100.
C7_SequentialBatchesMonotoneProgress ==
  \A s \in Sessions :
    LET f == ing[s]
        added == Flatten(f.batches)
    IN (f.pc \in {"add", "finish"} \/ (f.pc = "done" /\ f.result # "No chunks to embed.")) =>
         /\ added = SubSeq(f.all_docs, 1, f.processed_chunks)
         /\ IsSuffix(added, index[f.store])
         /\ Len(f.progress) = Len(f.batches) + 1 + (IF f.result = "Added" THEN 1 ELSE 0)
         /\ NonDecreasing(f.progress)
         /\ \A k \in 1..Len(f.progress) : f.progress[k] \in 0..100
         /\ f.pc = "add" => f.processed_chunks < f.total_chunks
         /\ f.pc = "finish" \/ f.result = "Added" =>
              /\ f.progress[Len(f.progress)] = 100
              /\ f.processed_chunks = f.total_chunks

\* three batches added and the call completed
C7_Witness ==
  \E s \in Sessions :
    /\ Succeeded(s)
    /\ Len(ing[s].batches) = 3
    /\ \E k \in 1..Len(ing[s].progress) : ing[s].progress[k] \notin {0, 100}


IsBlank(t) == \A k \in 1..Len(t) : t[k] \in {L(" "), L("\t"), L("\n")}

Known == {"DeepSeek", "Gemini", "ChatGPT"}

\* C8: a query whose api_key or prompt is empty or whitespace-only gets a
\* structured failure with an error message, with no RAG retrieval and no
\* adapter call; the api_key message wins when both are blank.
C8_BlankKeyOrPromptRejected ==
  request # None =>
    LET req == request[1]
        r == response[1]
    IN (IsBlank(req.api_key) \/ IsBlank(req.prompt)) =>
         /\ r.status = 200
         /\ r.success = FALSE
         /\ r.response = <<>>
         /\ r.error_message =
              Some(IF IsBlank(req.api_key) THEN T("API key is required.")
                                           ELSE T("Prompt cannot be empty."))
         /\ ragCalls = <<>>
         /\ llmCalls = <<>>

\* a whitespace-only key with a blank prompt, RAG on and a store selected
C8_Witness ==
  /\ request # None
  /\ request[1].api_key = << SP >>
  /\ IsBlank(request[1].prompt)
  /\ request[1].use_rag
  /\ Truthy(request[1].db_path)
  /\ response[1].error_message = Some(T("API key is required."))

\* C9: a query naming an unknown provider gets the UnknownProvider error
\* and causes no call at all: no adapter call, no call to the
\* embedding/index backend, whatever the RAG flag and the store path.
C9_UnknownProviderMakesNoCall ==
  request # None =>
    LET req == request[1]
        r == response[1]
    IN (req.model_name \notin Known /\ ~ IsBlank(req.api_key) /\ ~ IsBlank(req.prompt)) =>
         /\ r.success = FALSE
         /\ r.error_message = Some(<< L("Unknown model: "), L(req.model_name) >>)
         /\ llmCalls = <<>>
         /\ ragCalls = <<>>

\* C10: a response is a success only when the adapter's call returned a
\* non-empty text, and then carries that text; every other response is a
\* failure with an empty response and a non-empty error message.
C10_SuccessOnlyWithText ==
  response # None =>
    LET r == response[1]
        answered == /\ Len(llmCalls) = 1
                    /\ llmCalls[1].reply.kind = "content"
                    /\ llmCalls[1].reply.content # None
                    /\ llmCalls[1].reply.content[1] # <<>>
    IN /\ r.success <=> answered
       /\ r.success => r.response = llmCalls[1].reply.content[1] /\ r.response # <<>>
       /\ ~ r.success =>
            /\ r.response = <<>>
            /\ r.error_message # None
            /\ r.error_message[1] # <<>>

\* an OpenAI-style adapter handed a completion with empty content
C10_Witness ==
  /\ response # None
  /\ Len(llmCalls) = 1
  /\ llmCalls[1].model_name \in {"DeepSeek", "ChatGPT"}
  /\ llmCalls[1].reply = Completion(Some(<<>>))
  /\ ~ response[1].success

\* C11: the prompt handed to the adapter is the trimmed original prompt
\* when RAG is off or no store path is given (the adapter is still called
\* then), and it is the context-and-question prompt exactly when RAG is on
\* with a store path and the retrieval succeeded.
C11_PromptHandedToAdapter ==
  [][(request = None /\ request' # None) =>
       LET req == request'[1]
           q == Strip(req.prompt)
           valid == ~ IsBlank(req.api_key) /\ ~ IsBlank(req.prompt)
           withStore == req.use_rag /\ req.db_path # None /\ req.db_path[1] # <<>>
       IN /\ \A c \in 1..Len(llmCalls') :
               IF withStore
                 THEN /\ Len(ragCalls') = 1
                      /\ ragCalls'[1].outcome = "ok"
                      /\ llmCalls'[c].prompt =
                           << L("Use the following context to answer:\n\n") >>
                             \o Join(similarity_search(index[req.db_path[1][1][1]], q, 3))
                             \o << L("\n\nQuestion: ") >> \o q
                 ELSE /\ ragCalls' = <<>>
                      /\ llmCalls'[c].prompt = q
          /\ (valid /\ ~ withStore /\ req.model_name \in Known) =>
               /\ Len(llmCalls') = 1
               /\ ragCalls' = <<>>
          /\ (valid /\ withStore /\ req.model_name \in Known) =>
               (Len(llmCalls') = 1 <=> ragCalls'[1].outcome = "ok")]_vars

\* RAG on, a filled store and an untrimmed prompt: the adapter got the
\* three nearest chunks and the trimmed question
C11_Witness ==
  /\ request # None
  /\ request[1].use_rag
  /\ Truthy(request[1].db_path)
  /\ request[1].prompt = << SP, L("q") >>
  /\ Len(llmCalls) = 1
  /\ Len(llmCalls[1].prompt) = 8
  /\ llmCalls[1].prompt[8] = L("q")

\* the markers of the two classes, in the spellings provider errors use
AuthMarkers == {"401", "invalid api key", "Invalid API Key", "authentication", "AUTHENTICATION"}
QuotaMarkers == {"quota", "Quota", "limit", "Limit"}

HasMarker(error, markers) == \E k \in 1..Len(error) : error[k][1] \in markers

ErrorKind(error) ==
  IF HasMarker(error, AuthMarkers) THEN "AuthError"
  ELSE IF HasMarker(error, QuotaMarkers) THEN "QuotaExceeded"
  ELSE "ProviderError"

\* the name each adapter passes to parse_api_error
ProviderOf(model_name) ==
  CASE model_name = "DeepSeek" -> "DeepSeek"
    [] model_name = "Gemini" -> "Gemini"
    [] model_name = "ChatGPT" -> "OpenAI"

MessageOf(kind, provider, error) ==
  CASE kind = "AuthError" ->
         << L("Invalid API key. Please check your "), L(provider), L(" API key.") >>
    [] kind = "QuotaExceeded" ->
         << L(provider), L(" API quota exceeded. Please check your account limits.") >>
    [] kind = "ProviderError" -> << L(provider), L(" API error: ") >> \o error

\* C12: whatever the provider and the letter case, an adapter error that
\* mentions "401", "invalid api key" or "authentication" is reported as
\* AuthError, otherwise one that mentions "quota" or "limit" as
\* QuotaExceeded, otherwise as ProviderError; an error with markers of both
\* classes is AuthError, and the three messages are pairwise distinct.
C12_ErrorsClassifiedUniformly ==
  (response # None /\ Len(llmCalls) = 1 /\ llmCalls[1].reply.kind = "raise") =>
    LET error == llmCalls[1].reply.error
        provider == ProviderOf(llmCalls[1].model_name)
    IN /\ response[1].error_message = Some(MessageOf(ErrorKind(error), provider, error))
       /\ (HasMarker(error, AuthMarkers) /\ HasMarker(error, QuotaMarkers)) =>
            response[1].error_message = Some(MessageOf("AuthError", provider, error))
       /\ \A k1, k2 \in {"AuthError", "QuotaExceeded", "ProviderError"} :
            k1 # k2 => MessageOf(k1, provider, error) # MessageOf(k2, provider, error)

\* Gemini's adapter raised an error that names the quota marker before the
\* auth marker, and the answer is the AuthError message
C12_Witness ==
  /\ response # None
  /\ Len(llmCalls) = 1
  /\ llmCalls[1].model_name = "Gemini"
  /\ llmCalls[1].reply = Raises(<< L("limit"), L("of"), L("401") >>)
  /\ response[1].error_message =
       Some(<< L("Invalid API key. Please check your "), L("Gemini"), L(" API key.") >>)

\* C13: validation failures, RAG retrieval failures, an unknown provider,
\* an exception inside an adapter and an empty provider output are all
\* answered with status 200 and success = false; a RAG retrieval failure
\* makes no adapter call; the 500 is produced only when none of those cases
\* applies and an exception escapes while the result is built.
C13_FailuresAreStatus200 ==
  request # None =>
    LET req == request[1]
        r == response[1]
        invalid == IsBlank(req.api_key) \/ IsBlank(req.prompt)
        ragFailed == Len(ragCalls) = 1 /\ ragCalls[1].outcome # "ok"
        unknown == req.model_name \notin Known
        raised == Len(llmCalls) = 1 /\ llmCalls[1].reply.kind = "raise"
        empty == /\ Len(llmCalls) = 1
                 /\ llmCalls[1].reply.kind = "content"
                 /\ \/ llmCalls[1].reply.content = None
                    \/ llmCalls[1].reply.content = Some(<<>>)
        classified == invalid \/ ragFailed \/ unknown \/ raised \/ empty
    IN /\ r.status \in {200, 500}
       /\ classified =>
            /\ r.status = 200
            /\ r.success = FALSE
            /\ r.error_message # None
       /\ ragFailed => llmCalls = <<>>
       /\ r.status = 500 =>
            /\ ~ classified
            /\ Len(llmCalls) = 1
            /\ llmCalls[1].reply \in MalformedReplies
       /\ (r.status = 200 /\ ~ classified) => r.success

\* a valid request to a known provider whose retrieval failed on search
C13_Witness ==
  /\ request # None
  /\ request[1].model_name = "ChatGPT"
  /\ Len(ragCalls) = 1
  /\ ragCalls[1].outcome = "search_fail"
  /\ llmCalls = <<>>
  /\ response[1].status = 200
  /\ ~ response[1].success

\* the 500 is reachable: a content that is not a str
C13_InternalErrorSeen ==
  /\ response # None
  /\ response[1].status = 500

Count(seq, x) == Cardinality({ p \in 1..Len(seq) : seq[p] = x })

\* res holds the n nearest chunks of idx to the question, nearest first
IsNearest(res, idx, question, n) ==
  /\ Len(res) = n
  /\ \A j \in 1..Len(res) : Count(res, res[j]) <= Count(idx, res[j])
  /\ \A j \in 1..(Len(res) - 1) :
       Distance(question, res[j]) <= Distance(question, res[j + 1])
  /\ \A p \in 1..Len(idx) :
       (res # <<>> /\ Distance(question, idx[p]) < Distance(question, res[Len(res)]))
         => Count(res, idx[p]) = Count(idx, idx[p])

\* C14: a successful retrieval hands on the texts of the min(k, n) nearest
\* of the store's n chunks, nearest first, separated by blank lines; on an
\* empty store that is the empty string, no error is raised and the adapter
\* of a known provider is still called.
C14_RetrieveJoinsNearestChunks ==
  [][(request = None /\ request' # None
        /\ Len(ragCalls') = 1 /\ ragCalls'[1].outcome = "ok") =>
       LET req == request'[1]
           q == Strip(req.prompt)
           idx == index[ragCalls'[1].persist_directory]
           n == IF Len(idx) < 3 THEN Len(idx) ELSE 3
       IN /\ ragCalls'[1].question = q
          /\ ragCalls'[1].k = 3
          /\ response'[1].status = 200
          /\ req.model_name \in Known => Len(llmCalls') = 1
          /\ \A c \in 1..Len(llmCalls') :
               LET p == llmCalls'[c].prompt
                   context == SubSeq(p, 2, Len(p) - 1 - Len(q))
                   res == [j \in 1..((Len(context) + 1) \div 2) |-> context[2 * j - 1]]
               IN /\ Len(context) = (IF n = 0 THEN 0 ELSE 2 * n - 1)
                  /\ \A j \in 1..(n - 1) : context[2 * j] = L("\n\n")
                  /\ IsNearest(res, idx, q, n)
                  /\ idx = <<>> => context = <<>>]_vars

\* a retrieval on a store that holds no chunk, answered by the provider
C14_Witness ==
  /\ request # None
  /\ Len(ragCalls) = 1
  /\ ragCalls[1].outcome = "ok"
  /\ index[ragCalls[1].persist_directory] = <<>>
  /\ Len(llmCalls) = 1
  /\ llmCalls[1].prompt =
       << L("Use the following context to answer:\n\n"), L("\n\nQuestion: "), L("q") >>
  /\ response[1].success

\* a retrieval on a store of two chunks: both are handed on
C14_FewerThanK ==
  /\ request # None
  /\ Len(ragCalls) = 1
  /\ Len(llmCalls) = 1
  /\ Len(index[ragCalls[1].persist_directory]) = 2
  /\ Len(llmCalls[1].prompt) = 6

Quiescent == \A s \in Sessions : ing[s].pc = "idle"

\* C15: every listed store directory holds its rag_metadata.json: a store
\* directory exists only through a successful ingestion, so once an
\* ingestion has ended (with zero chunks, with a failure or with success)
\* no listed store is without metadata.
C15_ListedStoresHaveMetadata ==
  Quiescent => \A st \in list_existing_databases : meta[st] # None

\* a step in which the chat input was submitted
Submitted == chat'.submits = chat.submits + 1

\* C16: a submission whose message, RAG setting and provider all equal
\* those of the submission immediately before it is not dispatched and adds
\* nothing to the chat history; a submission that differs in any of the
\* three is dispatched with that message, setting and provider.
C16_DuplicateIsNotDispatched ==
  [][Submitted =>
       LET new == chat'.previous[1]
       IN IF chat.previous # None /\ new[1] = chat.previous[1][1]
                                   /\ new[2] = chat.previous[1][2]
                                   /\ new[3] = chat.previous[1][3]
            THEN /\ chat'.sent = chat.sent
                 /\ chat'.pc = "idle"
                 /\ chat'.chat_history = chat.chat_history
                 /\ request' = None
            ELSE /\ chat'.sent = chat.sent + 1
                 /\ chat'.pc = "waiting"
                 /\ chat'.payload # None
                 /\ chat'.payload[1].prompt = new[1]
                 /\ chat'.payload[1].use_rag = (new[2] = Some("Yes"))
                 /\ Some(chat'.payload[1].model_name) = new[3]
                 /\ Len(chat'.chat_history) >= 1
                 /\ chat'.chat_history[Len(chat'.chat_history)] = << "user", new[1] >>]_vars

\* the same message submitted twice in a row after an answer: one POST
C16_Witness ==
  /\ chat.outcome = "duplicate"
  /\ chat.submits = 2
  /\ chat.sent = 1
  /\ Len(chat.chat_history) = 2
  /\ chat.pc = "idle"

\* C17: a request that times out was sent once and is not sent again by
\* the page, the session is usable afterwards, and when the user then
\* submits the same message again a new request is dispatched.
C17_TimeoutIsRetryable ==
  [][/\ (chat.pc = "waiting" /\ chat'.outcome = "ReadTimeout") =>
          /\ chat'.sent = chat.sent
          /\ chat'.pc = "idle"
          /\ request' = None
     /\ (Submitted /\ chat.outcome = "ReadTimeout" /\ chat'.previous = chat.previous) =>
          /\ chat'.sent = chat.sent + 1
          /\ chat'.pc = "waiting"]_vars

\* every chunk of part occurs in whole
Holds(whole, part) == \A k \in 1..Len(part) : \E p \in 1..Len(whole) : whole[p] = part[k]

\* C18: two ingestions into the same store that run interleaved both
\* complete, the index then holds the chunks of both, and the Metadata
\* record on disk is the whole record of one of them, the one that wrote
\* last: every write replaces the record, nothing is merged.
C18_InterleavedIngestionsLastWriterWins ==
  [][/\ \A s \in Sessions :
          (ing[s].pc = "finish" /\ ing'[s].pc = "done") =>
             meta'[ing[s].store] =
               Some([files |-> FileNames(ing[s].files),
                     created_at |-> nIngests,
                     total_chunks |-> ing[s].total_chunks])
     /\ (/\ \A s \in Sessions : ing'[s].pc = "done"
         /\ ing'["s1"].store = ing'["s2"].store) =>
          /\ \A s \in Sessions : ing'[s].result = "Added"
          /\ \A s \in Sessions :
               Holds(index'[ing'[s].store],
                     ExpectedChunks(ExpectedLoaded(ing'[s].uploaded_files)))
          /\ Len(index'[ing'["s1"].store]) =
               SumChunks(ExpectedLoaded(ing'["s1"].uploaded_files))
                 + SumChunks(ExpectedLoaded(ing'["s2"].uploaded_files))]_vars

\* C19: the combined chunk sequence is added in consecutive batches of at
\* most 30 chunks: every batch is non-empty, every batch but the last of a
\* completed call holds exactly 30, and the batches put end to end are the
\* combined sequence: each chunk once, in its original order.
C19_BatchesCoverChunksOnce ==
  \A s \in Sessions :
    LET f == ing[s]
        n == Len(f.batches)
    IN f.pc \in {"add", "finish", "done"} =>
         /\ \A b \in 1..n : Len(f.batches[b]) \in 1..30
         /\ \A b \in 1..(n - 1) : Len(f.batches[b]) = 30
         /\ f.pc = "add" => \A b \in 1..n : Len(f.batches[b]) = 30
         /\ \A b \in 1..n : \A k \in 1..Len(f.batches[b]) :
              f.batches[b][k] = f.all_docs[30 * (b - 1) + k]
         /\ (f.pc = "finish" \/ Succeeded(s)) =>
              /\ n = (Len(f.all_docs) + 29) \div 30
              /\ Flatten(f.batches) = f.all_docs
              /\ f.all_docs = ExpectedChunks(ExpectedLoaded(f.uploaded_files))
              /\ IsSuffix(f.all_docs, index[f.store])

\* 62 chunks added as 30, 30 and 2
C19_Witness ==
  \E s \in Sessions :
    /\ Succeeded(s)
    /\ Len(ing[s].all_docs) = 62
    /\ Len(ing[s].batches) = 3
    /\ Len(ing[s].batches[3]) = 2

\* C20: once a store's directory has been deleted it stays out of the list
\* until an ingestion targets that name: no chat query brings it back, not
\* even a RAG query of a session whose active store is the deleted one.
C20_DeletedStoreStaysAbsent ==
  [][\A st \in Stores :
       (st \notin list_existing_databases /\ st \in dirs') =>
          \E s \in Sessions :
            /\ ing[s].pc = "idle"
            /\ ing'[s].pc # "idle"
            /\ ing'[s].store = st]_vars

====
